---------------------------- MODULE Spec2Model ----------------------------
(***************************************************************************)
(* Model of the two scripts of renderx-plugin-components:                  *)
(*   scripts/validate-components.js  (validatePackage)                     *)
(*   tests/react-component.test.js   (runTests)                            *)
(*                                                                         *)
(* Strings are TLA+ strings handled character by character (SubSeq), JSON  *)
(* documents are tagged values, the file system is a function from paths   *)
(* (sequences of names below json-components) to file contents.  File and  *)
(* directory names hold no path separator of either platform.              *)
(***************************************************************************)
EXTENDS Integers, Sequences, FiniteSets, TLC

VARIABLES
  sep,            \* path.sep of the platform the script runs on
  dirPresent,     \* fs.existsSync(COMPONENTS_DIR)
  files,          \* path below json-components -> file content
  pc,             \* position of validatePackage
  hasErrors,      \* let hasErrors
  indexData,      \* let indexData
  actualFiles,    \* const actualFiles
  declaredFiles,  \* const declaredFiles
  cursor,         \* position of the for..of loop over actualFiles
  console,        \* what was printed, in order
  exitCode,       \* process exit status, -1 while running
  prev,           \* the previous run and the edit made after it
  tpc,            \* position of runTests
  reactComponent, \* const reactComponent
  index,          \* const index
  testCount,      \* let testCount
  passedCount,    \* let passedCount
  outcome,        \* test number -> "pass" | "fail", in the order run
  tlog,           \* what the suite printed, in order
  texit,          \* exit status of the suite, -1 while running
  tfiles,         \* the two files the suite loads
  tprev           \* the previous suite run and the edit made after it

vvars == <<sep, dirPresent, files, pc, hasErrors, indexData, actualFiles,
           declaredFiles, cursor, console, exitCode, prev>>
tvars == <<tpc, reactComponent, index, testCount, passedCount, outcome,
           tlog, texit, tfiles, tprev>>
vars == <<vvars, tvars>>

---------------------------------------------------------------------------
(* Bounds of the model *)

MaxFiles == 2       \* files below json-components besides index.json
MaxDepth == 2       \* longest path, in names, below json-components
MaxDeclared == 2    \* entries of index.json's components array
MaxPatches == 2     \* places where react.json departs from the example

---------------------------------------------------------------------------
(* Strings *)

\* the characters of the model's strings, in UTF-16 code unit order
Alphabet == "-./0123456789ABCDEFGHIJKLMNOPQRSTUVWXYZ\\_abcdefghijklmnopqrstuvwxyz"

CharAt(s, i) == SubSeq(s, i, i)

CodeUnit(c) == CHOOSE i \in 1..Len(Alphabet) : CharAt(Alphabet, i) = c

\* a < b as Array.prototype.sort's default comparison orders two strings
RECURSIVE StrLess(_, _)
StrLess(a, b) ==
  IF b = "" THEN FALSE
  ELSE IF a = "" THEN TRUE
  ELSE IF CharAt(a, 1) = CharAt(b, 1)
       THEN StrLess(SubSeq(a, 2, Len(a)), SubSeq(b, 2, Len(b)))
       ELSE CodeUnit(CharAt(a, 1)) < CodeUnit(CharAt(b, 1))

RECURSIVE Insert(_, _)
Insert(x, s) ==
  IF s = <<>> THEN <<x>>
  ELSE IF StrLess(x, Head(s)) THEN <<x>> \o s
  ELSE <<Head(s)>> \o Insert(x, Tail(s))

\* Array.prototype.sort() without a comparator, on strings
RECURSIVE sort(_)
sort(s) == IF s = <<>> THEN <<>> ELSE Insert(Head(s), sort(Tail(s)))

\* String.prototype.endsWith
endsWith(s, suffix) ==
  /\ Len(s) >= Len(suffix)
  /\ SubSeq(s, Len(s) - Len(suffix) + 1, Len(s)) = suffix

\* String.prototype.includes
strIncludes(s, part) ==
  \E i \in 1..(Len(s) - Len(part) + 1) : SubSeq(s, i, i + Len(part) - 1) = part

\* relativePath.replace(/\\/g, '/')
RECURSIVE toForwardSlashes(_)
toForwardSlashes(s) ==
  IF s = "" THEN ""
  ELSE (IF CharAt(s, 1) = "\\" THEN "/" ELSE CharAt(s, 1))
       \o toForwardSlashes(SubSeq(s, 2, Len(s)))

\* Array.prototype.includes / filter on sequences
includes(s, x) == \E i \in 1..Len(s) : s[i] = x

RECURSIVE filterNotIn(_, _)
filterNotIn(s, other) ==
  IF s = <<>> THEN <<>>
  ELSE (IF includes(other, Head(s)) THEN <<>> ELSE <<Head(s)>>)
       \o filterNotIn(Tail(s), other)

Range(s) == {s[i] : i \in 1..Len(s)}

---------------------------------------------------------------------------
(* JSON values *)

Undef == [t |-> "undefined"]
Null == [t |-> "null"]
Str(s) == [t |-> "string", s |-> s]
Num(n) == [t |-> "number", n |-> n]
Bool(b) == [t |-> "boolean", b |-> b]
Arr(a) == [t |-> "array", a |-> a]
Obj(o) == [t |-> "object", o |-> o]
\* {key: value} for the keys whose value is not undefined
ObjOf(f) == Obj([k \in {x \in DOMAIN f : f[x] # Undef} |-> f[k]])
EmptyObj == ObjOf([k \in {} |-> Undef])

\* ToBoolean: what if (v) and !v test
Truthy(v) ==
  CASE v.t = "undefined" -> FALSE
    [] v.t = "null" -> FALSE
    [] v.t = "string" -> v.s # ""
    [] v.t = "number" -> v.n # 0
    [] v.t = "boolean" -> v.b
    [] OTHER -> TRUE

\* v.k throws a TypeError
Throws(v) == v.t \in {"undefined", "null"}

\* v.k for a v on which it does not throw
Get(v, k) == IF v.t = "object" /\ k \in DOMAIN v.o THEN v.o[k] ELSE Undef

\* the document has an own key k
HasKey(v, k) == v.t = "object" /\ k \in DOMAIN v.o

\* the JavaScript strings of an array of JSON strings
strings(a) == [i \in 1..Len(a) |-> a[i].s]

\* Array.isArray
isArray(v) == v.t = "array"

\* file contents: text JSON.parse rejects, or text that parses to a value
BadJson == [json |-> "bad"]
Json(v) == [json |-> "ok", value |-> v]


---------------------------------------------------------------------------
(* The file system the validator reads *)

COMPONENTS_DIR == "json-components"

\* path.normalize's treatment of separators: win32 turns "/" into "\",
\* posix leaves both as they are
RECURSIVE backslashed(_)
backslashed(s) ==
  IF s = "" THEN ""
  ELSE (IF CharAt(s, 1) = "/" THEN "\\" ELSE CharAt(s, 1))
       \o backslashed(SubSeq(s, 2, Len(s)))

native(s) == IF sep = "\\" THEN backslashed(s) ELSE s

\* path.join of two non-empty relative paths
pathJoin(a, b) == native(a \o sep \o b)

INDEX_FILE == pathJoin(COMPONENTS_DIR, "index.json")

\* the names of a native path; acc is the name being read
RECURSIVE splitFrom(_, _)
splitFrom(s, acc) ==
  IF s = "" THEN <<acc>>
  ELSE IF CharAt(s, 1) = sep
       THEN <<acc>> \o splitFrom(SubSeq(s, 2, Len(s)), "")
       ELSE splitFrom(SubSeq(s, 2, Len(s)), acc \o CharAt(s, 1))

Split(p) == splitFrom(p, "")

\* the names of p below json-components
Below(p) == Tail(Split(p))

IsPrefix(a, b) == Len(a) <= Len(b) /\ SubSeq(b, 1, Len(a)) = a

isFile(p) ==
  LET names == Split(p)
  IN /\ dirPresent
     /\ Head(names) = COMPONENTS_DIR
     /\ Tail(names) \in DOMAIN files

\* fs.statSync(p).isDirectory()
isDirectory(p) ==
  LET names == Split(p)
      below == Tail(names)
  IN /\ dirPresent
     /\ Head(names) = COMPONENTS_DIR
     /\ \/ below = <<>>
        \/ \E f \in DOMAIN files : IsPrefix(below, f) /\ Len(f) > Len(below)

existsSync(p) == isFile(p) \/ isDirectory(p)

SetToSeq(S) == CHOOSE q \in [1..Cardinality(S) -> S] : Range(q) = S

SetToSortedSeq(S) == sort(SetToSeq(S))

\* fs.readdirSync(dir): the names in dir (the order is the platform's; the
\* caller sorts what it collects)
readdirSync(dir) ==
  LET d == Below(dir)
  IN SetToSortedSeq({f[Len(d) + 1] : f \in {g \in DOMAIN files : IsPrefix(d, g)}})

\* fs.readFileSync(p, 'utf8') of an existing file
readFileSync(p) == files[Below(p)]

---------------------------------------------------------------------------
(* validate-components.js *)

Msg(level, kind, file, what, list, n) ==
  [level |-> level, kind |-> kind, file |-> file, what |-> what,
   list |-> list, n |-> n]
Error(kind) == Msg("error", kind, "", "", <<>>, 0)
Log(kind) == Msg("log", kind, "", "", <<>>, 0)
LogN(kind, n) == Msg("log", kind, "", "", <<>>, n)
MissingField(file, what) == Msg("error", "missing", file, what, <<>>, 0)
InvalidJson(file) == Msg("error", "invalid_json", file, "", <<>>, 0)
Skipping(file) == Msg("log", "skip", file, "", <<>>, 0)
NotListed(list) == Msg("warn", "not_listed", "", "", list, 0)
Stale(list) == Msg("error", "stale", "", "", list, 0)

\* item.endsWith('.json') && item !== 'index.json'
isCollected(item) == endsWith(item, ".json") /\ item # "index.json"

\* files.push(relativePath.replace(/\\/g, '/'))
pushed(relativePath) == toForwardSlashes(relativePath)

RECURSIVE getAllJsonFiles(_, _), walkItems(_, _, _)
walkItems(dir, basePath, items) ==
  IF items = <<>> THEN <<>>
  ELSE LET item == Head(items)
           fullPath == pathJoin(dir, item)
           relativePath == IF basePath # "" THEN pathJoin(basePath, item) ELSE item
       IN (IF isDirectory(fullPath) THEN getAllJsonFiles(fullPath, relativePath)
           ELSE IF isCollected(item) THEN <<pushed(relativePath)>>
           ELSE <<>>)
          \o walkItems(dir, basePath, Tail(items))

getAllJsonFiles(dir, basePath) == walkItems(dir, basePath, readdirSync(dir))

\* actualFiles.filter(file => !declaredFiles.includes(file))
missingFromIndex(actual, declared) == filterNotIn(actual, declared)

\* the stale check left out
staleInIndex_none(actual, declared) == <<>>

\* the two lists swapped
staleInIndex_swapped(actual, declared) == filterNotIn(actual, declared)

\* declaredFiles.filter(file => !actualFiles.includes(file))
staleInIndex(actual, declared) == filterNotIn(declared, actual)

\* componentData.topics || componentData.definitions
isTopicDefinition(componentData) ==
  Truthy(Get(componentData, "topics")) \/ Truthy(Get(componentData, "definitions"))

metadataErrors(componentFile, componentData) ==
  IF ~Truthy(Get(componentData, "metadata"))
  THEN <<MissingField(componentFile, "metadata")>>
  ELSE (IF ~Truthy(Get(Get(componentData, "metadata"), "type"))
        THEN <<MissingField(componentFile, "metadata.type")>> ELSE <<>>)
       \o (IF ~Truthy(Get(Get(componentData, "metadata"), "name"))
           THEN <<MissingField(componentFile, "metadata.name")>> ELSE <<>>)

uiErrors(componentFile, componentData) ==
  IF ~Truthy(Get(componentData, "ui"))
  THEN <<MissingField(componentFile, "ui")>>
  ELSE IF ~Truthy(Get(Get(componentData, "ui"), "template"))
       THEN <<MissingField(componentFile, "ui.template")>> ELSE <<>>

\* the integration check left out
integrationErrors_none(componentFile, componentData) == <<>>

integrationErrors(componentFile, componentData) ==
  IF ~Truthy(Get(componentData, "integration"))
  THEN <<MissingField(componentFile, "integration")>> ELSE <<>>

\* an empty catch block: the file is skipped in silence
catchBlock_silent(componentFile) == <<>>

\* lines 144-147: the catch block of the loop body
catchBlock(componentFile) == <<InvalidJson(componentFile)>>

\* one pass of the body of the for..of loop: what it prints
validateComponent(componentFile) ==
  LET filePath == pathJoin(COMPONENTS_DIR, componentFile)
  IN IF ~isFile(filePath) \/ readFileSync(filePath).json = "bad"
     THEN catchBlock(componentFile)
     ELSE LET componentData == readFileSync(filePath).value
          IN IF Throws(componentData) THEN catchBlock(componentFile)
             ELSE IF isTopicDefinition(componentData)
                  THEN <<Skipping(componentFile)>>
                  ELSE metadataErrors(componentFile, componentData)
                       \o uiErrors(componentFile, componentData)
                       \o integrationErrors(componentFile, componentData)

anyError(msgs) == \E i \in 1..Len(msgs) : msgs[i].level = "error"

\* the closing loop: files whose topics and definitions are both falsy
RECURSIVE componentCount(_)
componentCount(fileList) ==
  IF fileList = <<>> THEN 0
  ELSE LET data == readFileSync(pathJoin(COMPONENTS_DIR, Head(fileList))).value
       IN (IF ~Truthy(Get(data, "topics")) /\ ~Truthy(Get(data, "definitions"))
           THEN 1 ELSE 0) + componentCount(Tail(fileList))

exit(code) ==
  /\ pc' = "exited"
  /\ exitCode' = code

\* lines 17-33
CheckPaths ==
  /\ pc = "start"
  /\ LET noDir == ~existsSync(COMPONENTS_DIR)
         noIndex == ~existsSync(INDEX_FILE)
     IN /\ console' = console
                      \o (IF noDir THEN <<Error("no_dir")>> ELSE <<>>)
                      \o (IF noIndex THEN <<Error("no_index")>> ELSE <<>>)
        /\ hasErrors' = (noDir \/ noIndex)
        /\ IF noDir \/ noIndex THEN exit(1)
           ELSE pc' = "readIndex" /\ UNCHANGED exitCode
  /\ UNCHANGED <<sep, dirPresent, files, indexData, actualFiles, declaredFiles,
                 cursor, prev>>
  /\ UNCHANGED tvars

\* lines 36-44
ReadIndex ==
  /\ pc = "readIndex"
  /\ IF readFileSync(INDEX_FILE).json = "bad"
     THEN /\ console' = Append(console, Error("index_invalid_json"))
          /\ exit(1)
          /\ UNCHANGED indexData
     ELSE /\ indexData' = readFileSync(INDEX_FILE).value
          /\ console' = Append(console, Log("index_valid"))
          /\ pc' = "checkIndex"
          /\ UNCHANGED exitCode
  /\ UNCHANGED <<sep, dirPresent, files, hasErrors, actualFiles, declaredFiles,
                 cursor, prev>>
  /\ UNCHANGED tvars

\* lines 47-59; indexData.version on null is an uncaught TypeError, which
\* ends the process with status 1
CheckIndex ==
  /\ pc = "checkIndex"
  /\ IF Throws(indexData)
     THEN /\ console' = Append(console, Error("uncaught"))
          /\ exit(1)
          /\ UNCHANGED hasErrors
     ELSE LET noVersion == ~Truthy(Get(indexData, "version"))
              noArray == ~isArray(Get(indexData, "components"))
          IN /\ console' = console
                  \o (IF noVersion THEN <<Error("index_no_version")>> ELSE <<>>)
                  \o (IF noArray THEN <<Error("index_no_components")>> ELSE <<>>)
             /\ hasErrors' = (hasErrors \/ noVersion \/ noArray)
             /\ IF noVersion \/ noArray THEN exit(1)
                ELSE pc' = "walk" /\ UNCHANGED exitCode
  /\ UNCHANGED <<sep, dirPresent, files, indexData, actualFiles, declaredFiles,
                 cursor, prev>>
  /\ UNCHANGED tvars

\* lines 80-85
Walk ==
  /\ pc = "walk"
  /\ actualFiles' = sort(getAllJsonFiles(COMPONENTS_DIR, ""))
  /\ declaredFiles' = sort(strings(Get(indexData, "components").a))
  /\ console' = console \o <<LogN("found", Len(actualFiles')),
                             LogN("declares", Len(declaredFiles'))>>
  /\ pc' = "compare"
  /\ UNCHANGED <<sep, dirPresent, files, hasErrors, indexData, cursor, exitCode,
                 prev>>
  /\ UNCHANGED tvars

\* lines 87-99
Compare ==
  /\ pc = "compare"
  /\ LET missing == missingFromIndex(actualFiles, declaredFiles)
         stale == staleInIndex(actualFiles, declaredFiles)
     IN /\ console' = console
                      \o (IF Len(missing) > 0 THEN <<NotListed(missing)>> ELSE <<>>)
                      \o (IF Len(stale) > 0 THEN <<Stale(stale)>> ELSE <<>>)
        /\ hasErrors' = (hasErrors \/ Len(stale) > 0)
  /\ cursor' = 1
  /\ pc' = "validate"
  /\ UNCHANGED <<sep, dirPresent, files, indexData, actualFiles, declaredFiles,
                 exitCode, prev>>
  /\ UNCHANGED tvars

\* lines 102-148, one file
ValidateFile ==
  /\ pc = "validate"
  /\ cursor <= Len(actualFiles)
  /\ LET msgs == validateComponent(actualFiles[cursor])
     IN /\ console' = console \o msgs
        /\ hasErrors' = (hasErrors \/ anyError(msgs))
  /\ cursor' = cursor + 1
  /\ UNCHANGED <<sep, dirPresent, files, pc, indexData, actualFiles,
                 declaredFiles, exitCode, prev>>
  /\ UNCHANGED tvars

\* the exit decision taken inside the loop, as soon as the flag is set
Decide_early ==
  /\ pc = "validate"
  /\ cursor > Len(actualFiles) \/ hasErrors
  /\ IF hasErrors
     THEN /\ console' = Append(console, Error("failed"))
          /\ exit(1)
     ELSE /\ console' = Append(console, Log("passed"))
          /\ pc' = "count"
          /\ UNCHANGED exitCode
  /\ UNCHANGED <<sep, dirPresent, files, hasErrors, indexData, actualFiles,
                 declaredFiles, cursor, prev>>
  /\ UNCHANGED tvars

\* lines 150-155
Decide ==
  /\ pc = "validate"
  /\ cursor > Len(actualFiles)
  /\ IF hasErrors
     THEN /\ console' = Append(console, Error("failed"))
          /\ exit(1)
     ELSE /\ console' = Append(console, Log("passed"))
          /\ pc' = "count"
          /\ UNCHANGED exitCode
  /\ UNCHANGED <<sep, dirPresent, files, hasErrors, indexData, actualFiles,
                 declaredFiles, cursor, prev>>
  /\ UNCHANGED tvars

\* lines 157-169
Count ==
  /\ pc = "count"
  /\ console' = Append(console, LogN("ready", componentCount(actualFiles)))
  /\ exit(0)
  /\ UNCHANGED <<sep, dirPresent, files, hasErrors, indexData, actualFiles,
                 declaredFiles, cursor, prev>>
  /\ UNCHANGED tvars


---------------------------------------------------------------------------
(* The catalogs the validator is run on *)

\* a path of d names: d-1 directories "sub" and a file name
RECURSIVE Subs(_)
Subs(k) == IF k = 0 THEN <<>> ELSE <<"sub">> \o Subs(k - 1)

NamesAt(d) ==
  CASE d = 1 -> {"a.json", "notes.txt"}
    [] d = 2 -> {"b.json", "index.json"}
    [] OTHER -> {"c.json"}

FilePaths == UNION {{Subs(d - 1) \o <<n>> : n \in NamesAt(d)} : d \in 1..MaxDepth}

IndexPath == <<"index.json">>

\* the path as index.json names it
RECURSIVE slashed(_)
slashed(p) == IF Len(p) = 1 THEN p[1] ELSE p[1] \o "/" \o slashed(Tail(p))

FullMetadata == ObjOf([type |-> Str("button"), name |-> Str("Button")])
FullUi == ObjOf([template |-> EmptyObj])

Component(tp, df, md, ui, ig) ==
  Json(ObjOf([topics |-> tp, definitions |-> df, metadata |-> md, ui |-> ui,
              integration |-> ig]))

ValidComponent == Component(Undef, Undef, FullMetadata, FullUi, EmptyObj)

\* documents without a topics or definitions key: every combination of
\* missing top-level fields, each nested field missing or empty, and a
\* top-level field that is present with a falsy or a non-object value
PlainDocs ==
  {Component(Undef, Undef, md, ui, ig) :
     md \in {Undef, FullMetadata, EmptyObj}, ui \in {Undef, FullUi, EmptyObj},
     ig \in {Undef, EmptyObj}}
  \cup {Component(Undef, Undef, md, FullUi, EmptyObj) :
          md \in {ObjOf([name |-> Str("Button")]), ObjOf([type |-> Str("button")]),
                  ObjOf([type |-> Str(""), name |-> Str("Button")]),
                  Null, Str(""), Num(0), Bool(FALSE), Str("x")}}
  \cup {Component(Undef, Undef, FullMetadata, ui, EmptyObj) :
          ui \in {Null, Bool(FALSE)}}
  \cup {Component(Undef, Undef, FullMetadata, FullUi, Null)}

\* documents with a topics or definitions key, of a truthy or a falsy value
KeyedDocs ==
  {Component(EmptyObj, Undef, Undef, Undef, Undef),
   Component(Undef, EmptyObj, Undef, Undef, Undef),
   Component(EmptyObj, Undef, FullMetadata, FullUi, EmptyObj),
   Component(Null, Undef, Undef, Undef, Undef),
   Component(Null, Undef, FullMetadata, FullUi, EmptyObj),
   Component(Undef, Bool(FALSE), FullMetadata, FullUi, EmptyObj)}

OtherDocs == {BadJson, Json(Null), Json(Arr(<<>>))}

DocsFor(p) ==
  CASE p[Len(p)] = "a.json" -> PlainDocs \cup KeyedDocs \cup OtherDocs
    [] p[Len(p)] = "b.json" ->
         {ValidComponent, BadJson, Json(EmptyObj),
          Component(EmptyObj, Undef, Undef, Undef, Undef)}
    [] p[Len(p)] = "c.json" -> {ValidComponent, Json(EmptyObj)}
    [] p[Len(p)] = "index.json" -> {ValidComponent}
    [] OTHER -> {BadJson}

\* what an edit between two runs may add
NewDocs(p) == DocsFor(p) \cap {ValidComponent, Json(EmptyObj), BadJson}

AllDocs == UNION {DocsFor(p) : p \in FilePaths}

\* the files besides index.json
Catalogs ==
  UNION {{f \in [S -> AllDocs] : \A p \in S : f[p] \in DocsFor(p)} :
           S \in {T \in SUBSET FilePaths : Cardinality(T) <= MaxFiles}}

\* what index.json may declare: paths of the model and one that names nothing
Entries == {"a.json", "sub/b.json", "sub/index.json", "ghost.json"}

ComponentLists ==
  {SetToSeq({Str(e) : e \in S}) :
     S \in {T \in SUBSET Entries : Cardinality(T) <= MaxDeclared}}

IndexDocs ==
  {BadJson, Json(Null), Json(Num(5))}
  \cup {Json(ObjOf([version |-> Str("1.0.0"), components |-> c])) :
          c \in {Undef, Str("a.json")} \cup {Arr(l) : l \in ComponentLists}}
  \cup {Json(ObjOf([version |-> v, components |-> Arr(l)])) :
          v \in {Undef, Str("")}, l \in {<<>>, <<Str("a.json")>>, <<Str("ghost.json")>>}}

NoPrev == [exit |-> -1, op |-> "none", path |-> <<>>]
NoTestPrev == [exit |-> -1, op |-> "none", outcome |-> <<>>]

ValidatorIdle ==
  /\ hasErrors = FALSE
  /\ indexData = Undef
  /\ actualFiles = <<>>
  /\ declaredFiles = <<>>
  /\ cursor = 0
  /\ console = <<>>
  /\ exitCode = -1

TestsOff ==
  /\ tpc = "off"
  /\ reactComponent = Undef
  /\ index = Undef
  /\ testCount = 0
  /\ passedCount = 0
  /\ outcome = <<>>
  /\ tlog = <<>>
  /\ texit = -1
  /\ tfiles = <<>>
  /\ tprev = NoTestPrev

Init ==
  /\ sep \in {"/", "\\"}
  /\ \/ dirPresent = FALSE /\ files = <<>>
     \/ /\ dirPresent = TRUE
        /\ \E c \in Catalogs :
             \/ files = c
             \/ \E i \in IndexDocs : files = c @@ (IndexPath :> i)
  /\ pc = "start"
  /\ prev = NoPrev
  /\ ValidatorIdle
  /\ TestsOff

restart ==
  /\ pc' = "start"
  /\ hasErrors' = FALSE
  /\ indexData' = Undef
  /\ actualFiles' = <<>>
  /\ declaredFiles' = <<>>
  /\ cursor' = 0
  /\ console' = <<>>
  /\ exitCode' = -1

\* between two runs: a file of a catalog that validated is deleted
RemoveFile ==
  /\ pc = "exited" /\ exitCode = 0 /\ prev = NoPrev
  /\ \E p \in DOMAIN files \ {IndexPath} :
       /\ files' = [q \in DOMAIN files \ {p} |-> files[q]]
       /\ prev' = [exit |-> exitCode, op |-> "remove", path |-> p]
  /\ restart
  /\ UNCHANGED <<sep, dirPresent>>
  /\ UNCHANGED tvars

\* between two runs: a file is added to a catalog that validated, and
\* index.json is left as it is
AddFile ==
  /\ pc = "exited" /\ exitCode = 0 /\ prev = NoPrev
  /\ Cardinality(DOMAIN files \ {IndexPath}) < MaxFiles
  /\ \E p \in FilePaths \ DOMAIN files :
       \E d \in NewDocs(p) :
         /\ files' = files @@ (p :> d)
         /\ prev' = [exit |-> exitCode, op |-> "add", path |-> p]
  /\ restart
  /\ UNCHANGED <<sep, dirPresent>>
  /\ UNCHANGED tvars

Next ==
  \/ CheckPaths
  \/ ReadIndex
  \/ CheckIndex
  \/ Walk
  \/ Compare
  \/ ValidateFile
  \/ Decide
  \/ Count
  \/ RemoveFile
  \/ AddFile

Spec == Init /\ [][Next]_vars


---------------------------------------------------------------------------
(* react-component.test.js *)

\* typeof
typeOf(v) ==
  CASE v.t \in {"null", "array", "object"} -> "object"
    [] OTHER -> v.t

\* the four test utilities: TRUE when the call returns, FALSE when it throws
assert(condition) == Truthy(condition)
assertEqual(actual, expected) == actual = expected
assertExists(value) == value.t \notin {"undefined", "null"}
assertType(value, expectedType) == typeOf(value) = expectedType

\* value.includes(x) returns true; FALSE when it returns false or when value
\* has no includes method, which is a TypeError
includesReturnsTrue(value, x) ==
  CASE value.t = "array" -> includes(value.a, Str(x))
    [] value.t = "string" -> strIncludes(value.s, x)
    [] OTHER -> FALSE

\* a.b.c... : the value, or Undef with thrown set when a step reads a
\* property of undefined or null
RECURSIVE Read(_, _)
Read(v, path) ==
  IF path = <<>> THEN [thrown |-> FALSE, value |-> v]
  ELSE IF Throws(v) THEN [thrown |-> TRUE, value |-> Undef]
  ELSE Read(Get(v, path[1]), Tail(path))

\* ui.icon.value asserted by the suite: the atom symbol, U+269B U+FE0F
ReactEmoji == "U+269B U+FE0F"

\* Test 1, lines 80-89
testMetadata(rc) ==
  /\ ~Throws(rc)
  /\ assertExists(Get(rc, "metadata"))
  /\ LET metadata == Get(rc, "metadata")
     IN /\ assertEqual(Get(metadata, "type"), Str("react"))
        /\ assertEqual(Get(metadata, "name"), Str("React"))
        /\ assertExists(Get(metadata, "version"))
        /\ assertExists(Get(metadata, "description"))
        /\ assertType(Get(metadata, "tags"), "object")
        /\ assert(Bool(isArray(Get(metadata, "tags"))))
        /\ assert(Bool(includesReturnsTrue(Get(metadata, "tags"), "react")))

\* Test 2, lines 92-101
testUi(rc) ==
  /\ ~Throws(rc)
  /\ assertExists(Get(rc, "ui"))
  /\ LET ui == Get(rc, "ui")
     IN /\ assertExists(Get(ui, "template"))
        /\ assertExists(Get(ui, "styles"))
        /\ assertExists(Get(ui, "icon"))
        /\ assertEqual(Get(Get(ui, "icon"), "value"), Str(ReactEmoji))
        /\ assertExists(Get(ui, "tools"))
        /\ ~Read(ui, <<"tools", "drag", "enabled">>).thrown
        /\ assert(Read(ui, <<"tools", "drag", "enabled">>).value)
        /\ ~Read(ui, <<"tools", "resize", "enabled">>).thrown
        /\ assert(Read(ui, <<"tools", "resize", "enabled">>).value)

\* Test 3, lines 104-116
testIntegration(rc) ==
  /\ ~Throws(rc)
  /\ assertExists(Get(rc, "integration"))
  /\ assertExists(Read(rc, <<"integration", "properties">>).value)
  /\ assertExists(Read(rc, <<"integration", "properties", "schema">>).value)
  /\ assertExists(Read(rc, <<"integration", "properties", "schema", "code">>).value)
  /\ LET codeSchema == Read(rc, <<"integration", "properties", "schema", "code">>).value
     IN /\ assertEqual(Get(codeSchema, "type"), Str("string"))
        /\ assertExists(Get(codeSchema, "default"))
        /\ assert(Bool(includesReturnsTrue(Get(codeSchema, "default"),
                                           "export default function")))
        /\ assertExists(Get(codeSchema, "ui"))
        /\ assertEqual(Get(Get(codeSchema, "ui"), "control"), Str("code"))

\* the strategy is only required to exist
strategyIsReact_exists(template) ==
  assertExists(Get(Get(template, "render"), "strategy"))

\* reactComponent.template.render.strategy === 'react', line 122
strategyIsReact(template) ==
  assertEqual(Get(Get(template, "render"), "strategy"), Str("react"))

\* Test 4, lines 119-129
testTemplate(rc) ==
  /\ ~Throws(rc)
  /\ assertExists(Get(rc, "template"))
  /\ LET template == Get(rc, "template")
     IN /\ assertExists(Get(template, "render"))
        /\ strategyIsReact(template)
        /\ assertExists(Get(template, "react"))
        /\ assertExists(Get(Get(template, "react"), "code"))
        /\ assertExists(Get(template, "classes"))
        /\ assert(Bool(isArray(Get(template, "classes"))))
        /\ assert(Bool(includesReturnsTrue(Get(template, "classes"), "rx-comp")))
        /\ assert(Bool(includesReturnsTrue(Get(template, "classes"), "rx-react")))

\* Test 5, lines 132-137
testInteractions(rc) ==
  /\ ~Throws(rc)
  /\ assertExists(Get(rc, "interactions"))
  /\ LET create == Get(Get(rc, "interactions"), "canvas.component.create")
     IN /\ assertExists(create)
        /\ assertEqual(Get(create, "pluginId"), Str("CanvasComponentPlugin"))
        /\ assertEqual(Get(create, "sequenceId"),
                       Str("canvas-component-create-symphony"))

\* Test 6, lines 140-143
testIndex(ix) ==
  /\ ~Throws(ix)
  /\ assert(Bool(isArray(Get(ix, "components"))))
  /\ assert(Bool(includesReturnsTrue(Get(ix, "components"), "react.json")))

\* Test 7, lines 146-154
testCanvasIntegration(rc) ==
  /\ ~Read(rc, <<"integration", "canvasIntegration">>).thrown
  /\ LET canvasIntegration == Read(rc, <<"integration", "canvasIntegration">>).value
     IN /\ assertExists(canvasIntegration)
        /\ assert(Get(canvasIntegration, "resizable"))
        /\ assert(Get(canvasIntegration, "draggable"))
        /\ assert(Get(canvasIntegration, "selectable"))
        /\ assertType(Get(canvasIntegration, "defaultWidth"), "number")
        /\ assertType(Get(canvasIntegration, "defaultHeight"), "number")

\* Test 8, lines 157-162
testEvents(rc) ==
  /\ ~Read(rc, <<"integration", "events">>).thrown
  /\ LET events == Read(rc, <<"integration", "events">>).value
     IN /\ assertExists(events)
        /\ assertExists(Get(events, "mount"))
        /\ assertExists(Get(events, "unmount"))
        /\ assertExists(Get(events, "error"))

\* the number of test(...) calls of runTests
NumTests == 8

\* testFn of the k-th test(...) call returns without throwing
testFn(k, rc, ix) ==
  CASE k = 1 -> testMetadata(rc)
    [] k = 2 -> testUi(rc)
    [] k = 3 -> testIntegration(rc)
    [] k = 4 -> testTemplate(rc)
    [] k = 5 -> testInteractions(rc)
    [] k = 6 -> testIndex(ix)
    [] k = 7 -> testCanvasIntegration(rc)
    [] k = 8 -> testEvents(rc)

\* the increment moved out of the try block: a failed check counts as passed
countPassed_always(passed, returned) == passed + 1

\* passedCount after test(): incremented in the try block, after testFn
countPassed(passed, returned) == IF returned THEN passed + 1 ELSE passed

TMsg(kind, test, passed, total) ==
  [kind |-> kind, test |-> test, passed |-> passed, total |-> total]

texitWith(code) ==
  /\ tpc' = "exited"
  /\ texit' = code

\* loadReactComponent / loadIndex throw: no file, or text that does not parse
loadThrows(name) == name \notin DOMAIN tfiles \/ tfiles[name].json = "bad"

\* lines 60-77: the two loads; a throw reaches the catch of the main guard
Load ==
  /\ tpc = "start"
  /\ IF loadThrows("react.json") \/ loadThrows("index.json")
     THEN /\ tlog' = Append(tlog, TMsg("suite_failed", 0, 0, 0))
          /\ texitWith(1)
          /\ UNCHANGED <<reactComponent, index>>
     ELSE /\ reactComponent' = tfiles["react.json"].value
          /\ index' = tfiles["index.json"].value
          /\ tpc' = "run"
          /\ UNCHANGED <<tlog, texit>>
  /\ UNCHANGED <<testCount, passedCount, outcome, tfiles, tprev>>
  /\ UNCHANGED vvars

\* lines 65-74, called for the k-th time
RunTest ==
  /\ tpc = "run"
  /\ LET k == testCount + 1
         returned == testFn(k, reactComponent, index)
     IN /\ testCount' = testCount + 1
        /\ passedCount' = countPassed(passedCount, returned)
        /\ outcome' = Append(outcome, [test |-> k,
                                       result |-> IF returned THEN "pass" ELSE "fail"])
        /\ tlog' = Append(tlog, TMsg(IF returned THEN "pass" ELSE "fail", k, 0, 0))
  /\ tpc' = IF testCount + 1 = NumTests THEN "report" ELSE "run"
  /\ UNCHANGED <<reactComponent, index, texit, tfiles, tprev>>
  /\ UNCHANGED vvars

\* lines 164-172 and 178-179
Report ==
  /\ tpc = "report"
  /\ tlog' = tlog \o <<TMsg("results", 0, passedCount, testCount),
                       TMsg(IF passedCount = testCount THEN "all_passed"
                            ELSE "some_failed", 0, 0, 0)>>
  /\ texitWith(IF passedCount = testCount THEN 0 ELSE 1)
  /\ UNCHANGED <<reactComponent, index, testCount, passedCount, outcome, tfiles,
                 tprev>>
  /\ UNCHANGED vvars

---------------------------------------------------------------------------
(* The files the suite is run on *)

\* v with key k set to val, or without key k when val is undefined
SetKey(v, k, val) ==
  IF val = Undef
  THEN Obj([x \in DOMAIN v.o \ {k} |-> v.o[x]])
  ELSE Obj([x \in DOMAIN v.o \cup {k} |-> IF x = k THEN val ELSE v.o[x]])

\* v with the value at path replaced; v itself where the path does not lead
RECURSIVE SetPath(_, _, _)
SetPath(v, path, val) ==
  IF v.t # "object" THEN v
  ELSE IF Len(path) = 1 THEN SetKey(v, path[1], val)
  ELSE IF path[1] \notin DOMAIN v.o THEN v
  ELSE SetKey(v, path[1], SetPath(v.o[path[1]], Tail(path), val))

\* the example component: one for which the suite reports 8/8
ExampleComponent ==
  ObjOf([
    metadata |-> ObjOf([type |-> Str("react"), name |-> Str("React"),
                        version |-> Str("1.0.0"),
                        description |-> Str("React component"),
                        tags |-> Arr(<<Str("react"), Str("code")>>)]),
    ui |-> ObjOf([template |-> EmptyObj, styles |-> EmptyObj,
                  icon |-> ObjOf([value |-> Str(ReactEmoji)]),
                  tools |-> ObjOf([drag |-> ObjOf([enabled |-> Bool(TRUE)]),
                                   resize |-> ObjOf([enabled |-> Bool(TRUE)])])]),
    integration |-> ObjOf([
      properties |-> ObjOf([schema |-> ObjOf([code |-> ObjOf([
        type |-> Str("string"),
        default |-> Str("export default function App() {}"),
        ui |-> ObjOf([control |-> Str("code")])])])]),
      canvasIntegration |-> ObjOf([resizable |-> Bool(TRUE), draggable |-> Bool(TRUE),
                                   selectable |-> Bool(TRUE),
                                   defaultWidth |-> Num(300),
                                   defaultHeight |-> Num(200)]),
      events |-> ObjOf([mount |-> EmptyObj, unmount |-> EmptyObj,
                        error |-> EmptyObj])]),
    template |-> ObjOf([render |-> ObjOf([strategy |-> Str("react")]),
                        react |-> ObjOf([code |-> Str("export default function App() {}")]),
                        classes |-> Arr(<<Str("rx-comp"), Str("rx-react")>>)]),
    interactions |-> ObjOf("canvas.component.create" :>
                        ObjOf([pluginId |-> Str("CanvasComponentPlugin"),
                               sequenceId |-> Str("canvas-component-create-symphony")]))])

Patch(path, val) == [path |-> path, val |-> val]

\* the places where a react.json of the model departs from the example
Patches ==
  << Patch(<<"metadata">>, Undef),
     Patch(<<"metadata", "type">>, Str("vue")),
     Patch(<<"metadata", "version">>, Str("2.0.0")),
     Patch(<<"metadata", "description">>, Null),
     Patch(<<"metadata", "tags">>, Str("react")),
     Patch(<<"metadata", "tags">>, Arr(<<Str("code")>>)),
     Patch(<<"ui">>, Undef),
     Patch(<<"ui", "icon", "value">>, Str("U+1F600")),
     Patch(<<"ui", "tools", "drag">>, Undef),
     Patch(<<"ui", "tools", "resize", "enabled">>, Bool(FALSE)),
     Patch(<<"integration">>, Undef),
     Patch(<<"integration", "properties", "schema", "code", "default">>, Num(5)),
     Patch(<<"integration", "properties", "schema", "code", "default">>,
           Arr(<<Str("export default function")>>)),
     Patch(<<"integration", "properties", "schema", "code", "ui", "control">>,
           Str("text")),
     Patch(<<"integration", "canvasIntegration">>, Null),
     Patch(<<"integration", "canvasIntegration", "defaultWidth">>, Str("300")),
     Patch(<<"integration", "canvasIntegration", "defaultHeight">>, Num(0)),
     Patch(<<"integration", "events", "error">>, Undef),
     Patch(<<"template">>, Undef),
     Patch(<<"template", "render">>, Str("react")),
     Patch(<<"template", "render", "strategy">>, Str("vue")),
     Patch(<<"template", "react", "code">>, Str("")),
     Patch(<<"template", "classes">>, Arr(<<Str("rx-comp")>>)),
     Patch(<<"interactions">>, Undef),
     Patch(<<"interactions", "canvas.component.create", "sequenceId">>,
           Str("other-symphony")),
     Patch(<<"id">>, Str("react")) >>

\* the example with the patches numbered in S applied, from patch n on
RECURSIVE Patched(_, _, _)
Patched(v, S, n) ==
  IF n > Len(Patches) THEN v
  ELSE Patched(IF n \in S THEN SetPath(v, Patches[n].path, Patches[n].val) ELSE v,
               S, n + 1)

ReactDocs ==
  {BadJson, Json(Null)}
  \cup {Json(Patched(ExampleComponent, S, 1)) :
          S \in {T \in SUBSET (1..Len(Patches)) : Cardinality(T) <= MaxPatches}}

SuiteIndexDocs ==
  {BadJson, Json(Null),
   Json(ObjOf([version |-> Str("1.0.0"),
               components |-> Arr(<<Str("button.json"), Str("react.json")>>)])),
   Json(ObjOf([version |-> Str("1.0.0"), components |-> Arr(<<Str("button.json")>>)])),
   Json(ObjOf([version |-> Str("1.0.0"), components |-> Str("react.json")]))}

SuiteFiles ==
  {<<>>}
  \cup {"react.json" :> r : r \in ReactDocs}
  \cup {"index.json" :> i : i \in SuiteIndexDocs}
  \cup {("react.json" :> r) @@ ("index.json" :> i) :
          r \in ReactDocs, i \in SuiteIndexDocs}

ValidatorOff ==
  /\ sep = "/"
  /\ dirPresent = FALSE
  /\ files = <<>>
  /\ pc = "off"
  /\ prev = NoPrev
  /\ ValidatorIdle

TestInit ==
  /\ tfiles \in SuiteFiles
  /\ tpc = "start"
  /\ reactComponent = Undef
  /\ index = Undef
  /\ testCount = 0
  /\ passedCount = 0
  /\ outcome = <<>>
  /\ tlog = <<>>
  /\ texit = -1
  /\ tprev = NoTestPrev
  /\ ValidatorOff

\* what an edit may put in template.render.strategy: values other than "react"
OtherStrategies == {Str("vue"), Str("React"), Str(""), Null, Num(1), Bool(TRUE)}

\* between two runs: only template.render.strategy of a react.json that
\* passed 8/8 is changed
CorruptStrategy ==
  /\ tpc = "exited" /\ texit = 0 /\ tprev = NoTestPrev
  /\ \E v \in OtherStrategies :
       tfiles' = [tfiles EXCEPT !["react.json"] =
                    Json(SetPath(@.value, <<"template", "render", "strategy">>, v))]
  /\ tprev' = [exit |-> texit, op |-> "corrupt", outcome |-> outcome]
  /\ tpc' = "start"
  /\ reactComponent' = Undef
  /\ index' = Undef
  /\ testCount' = 0
  /\ passedCount' = 0
  /\ outcome' = <<>>
  /\ tlog' = <<>>
  /\ texit' = -1
  /\ UNCHANGED vvars

TestNext ==
  \/ Load
  \/ RunTest
  \/ Report
  \/ CorruptStrategy

TestSpec == TestInit /\ [][TestNext]_vars

---------------------------------------------------------------------------
(* Vocabulary of the properties of the validator *)

Printed(m) == \E i \in 1..Len(console) : console[i] = m

\* the run got as far as the directory walk
Walked == \E i \in 1..Len(console) : console[i].kind = "found"

Exited == pc = "exited"

\* the paths, as index.json would name them, of the files below the directory
OnDisk == {slashed(p) : p \in DOMAIN files}

PathOf(s) == CHOOSE p \in DOMAIN files : slashed(p) = s

DocAt(s) == files[PathOf(s)]

\* the file at s holds a JSON object
IsObjectAt(s) == DocAt(s).json = "ok" /\ DocAt(s).value.t = "object"

\* every *.json file below the directory but the index file at its root
JsonFilesOnDisk ==
  {slashed(p) : p \in {q \in DOMAIN files \ {IndexPath} : endsWith(q[Len(q)], ".json")}}

\* index.json parses and holds a components array
IndexHasList ==
  /\ dirPresent
  /\ IndexPath \in DOMAIN files
  /\ files[IndexPath].json = "ok"
  /\ ~Throws(files[IndexPath].value)
  /\ isArray(Get(files[IndexPath].value, "components"))

DeclaredOnDisk == Range(strings(Get(files[IndexPath].value, "components").a))

\* the document at s has key k (it parses to an object with that key)
KeyAt(s, k) == DocAt(s).json = "ok" /\ HasKey(DocAt(s).value, k)

\* the document at s has the nested key parent.k
NestedKeyAt(s, parent, k) ==
  KeyAt(s, parent) /\ HasKey(Get(DocAt(s).value, parent), k)

\* the document at s parses and has neither a topics nor a definitions key
Unkeyed(s) ==
  DocAt(s).json = "ok" /\ ~KeyAt(s, "topics") /\ ~KeyAt(s, "definitions")

RequiredFields ==
  {"metadata", "metadata.type", "metadata.name", "ui", "ui.template", "integration"}

\* the required field is absent from the document at s
Absent(s, field) ==
  CASE field = "metadata.type" -> ~NestedKeyAt(s, "metadata", "type")
    [] field = "metadata.name" -> ~NestedKeyAt(s, "metadata", "name")
    [] field = "ui.template" -> ~NestedKeyAt(s, "ui", "template")
    [] OTHER -> ~KeyAt(s, field)

ParentOf(field) ==
  CASE field \in {"metadata.type", "metadata.name"} -> "metadata"
    [] field = "ui.template" -> "ui"
    [] OTHER -> ""

ErrorFor(s) ==
  \E i \in 1..Len(console) : console[i].level = "error" /\ console[i].file = s

---------------------------------------------------------------------------
(* C1: a components array that names a path with no file below the        *)
(* components directory makes the run end with exit status 1, whatever the *)
(* other files hold; so deleting the file of a declared entry of a catalog *)
(* that validated with exit 0 makes the next run exit 1.                   *)
C1_StaleEntryExitsOne ==
  /\ (Exited /\ IndexHasList /\ DeclaredOnDisk \ OnDisk # {}) => exitCode = 1
  /\ (/\ Exited
      /\ prev.op = "remove" /\ prev.exit = 0
      /\ IndexHasList
      /\ slashed(prev.path) \in DeclaredOnDisk) => exitCode = 1

C1_Witness ==
  /\ Exited /\ exitCode = 1
  /\ prev.op = "remove" /\ prev.exit = 0
  /\ slashed(prev.path) \in DeclaredOnDisk
  /\ Printed(Stale(<<slashed(prev.path)>>))
  /\ Cardinality(DOMAIN files) = 2

(* C2: adding a valid component file, undeclared, to a catalog that       *)
(* validated with exit 0 makes the next run warn about that file by name   *)
(* and exit 0.                                                             *)
C2_UndeclaredFileWarnsOnly ==
  (/\ Exited
   /\ prev.op = "add" /\ prev.exit = 0
   /\ files[prev.path] = ValidComponent
   /\ slashed(prev.path) \notin DeclaredOnDisk)
  => /\ exitCode = 0
     /\ \E i \in 1..Len(console) :
          /\ console[i].kind = "not_listed" /\ console[i].level = "warn"
          /\ includes(console[i].list, slashed(prev.path))

(* C3, as claimed: every required field that is absent from a discovered  *)
(* file with neither a topics nor a definitions key is reported for that   *)
(* file, and the run exits 1.                                              *)
C3_EveryAbsentFieldReported ==
  (Exited /\ Walked) =>
    \A i \in 1..Len(actualFiles) :
      \A field \in RequiredFields :
        (Unkeyed(actualFiles[i]) /\ Absent(actualFiles[i], field))
        => /\ Printed(MissingField(actualFiles[i], field))
           /\ exitCode = 1

\* the key is absent from the document at s or its value is falsy
MissingOrFalsy(s, k) == ~Truthy(Get(DocAt(s).value, k))

(* C3, amended: such a file gets an error and the run exits 1; when the   *)
(* file holds anything but null, each absent field is reported unless it   *)
(* is a nested field whose parent is absent or has a falsy value, and then *)
(* the parent is reported; no file or field ends the loop early.           *)
C3_AbsentFieldsReported ==
  (Exited /\ Walked) =>
    /\ cursor = Len(actualFiles) + 1
    /\ \A i \in 1..Len(actualFiles) :
         \A field \in RequiredFields :
           (Unkeyed(actualFiles[i]) /\ Absent(actualFiles[i], field))
           => /\ ErrorFor(actualFiles[i])
              /\ exitCode = 1
              /\ DocAt(actualFiles[i]).value # Null =>
                   IF ParentOf(field) # ""
                      /\ MissingOrFalsy(actualFiles[i], ParentOf(field))
                   THEN Printed(MissingField(actualFiles[i], ParentOf(field)))
                   ELSE Printed(MissingField(actualFiles[i], field))

\* two files are reported in one run: the first has a metadata key of a
\* falsy value and is reported for metadata alone, the second is reported
\* for several fields
C3_Witness ==
  /\ Exited /\ Walked /\ Len(actualFiles) = 2
  /\ Unkeyed(actualFiles[1]) /\ Unkeyed(actualFiles[2])
  /\ KeyAt(actualFiles[1], "metadata")
  /\ MissingOrFalsy(actualFiles[1], "metadata")
  /\ Printed(MissingField(actualFiles[1], "metadata"))
  /\ ~Printed(MissingField(actualFiles[1], "metadata.type"))
  /\ Printed(MissingField(actualFiles[2], "metadata"))
  /\ Printed(MissingField(actualFiles[2], "ui"))
  /\ Printed(MissingField(actualFiles[2], "integration"))
  /\ exitCode = 1

(* C4: a discovered file that is not parseable JSON is reported as        *)
(* invalid JSON and the run exits 1; the loop goes on to the other files,  *)
(* which get their own messages in the same run.                           *)
C4_BadJsonReported ==
  (Exited /\ Walked) =>
    /\ cursor = Len(actualFiles) + 1
    /\ \A i \in 1..Len(actualFiles) :
         DocAt(actualFiles[i]).json = "bad"
         => /\ Printed(InvalidJson(actualFiles[i]))
            /\ exitCode = 1
            /\ \A j \in 1..Len(actualFiles) :
                 /\ (IsObjectAt(actualFiles[j]) /\ DocAt(actualFiles[j]).value = EmptyObj)
                    => Printed(MissingField(actualFiles[j], "metadata"))
                 /\ (IsObjectAt(actualFiles[j])
                     /\ Truthy(Get(DocAt(actualFiles[j]).value, "topics")))
                    => Printed(Skipping(actualFiles[j]))

\* an unparseable file comes first and the file after it is still reported
C4_Witness ==
  /\ Exited /\ Walked /\ Len(actualFiles) = 2
  /\ DocAt(actualFiles[1]).json = "bad"
  /\ Printed(InvalidJson(actualFiles[1]))
  /\ Printed(MissingField(actualFiles[2], "metadata"))
  /\ exitCode = 1

(* C5: when the directory and the index exist, the index parses and has a *)
(* version field and a components array, every declared path names a file  *)
(* on disk, every component file parses and every file without a topics or *)
(* definitions key has metadata.type, metadata.name, ui.template and        *)
(* integration, the run exits 0 and prints the number of files that have    *)
(* neither key.                                                             *)
C5_NoFailureConditionExitsZero ==
  (/\ Exited
   /\ IndexHasList
   /\ HasKey(files[IndexPath].value, "version")
   /\ DeclaredOnDisk \subseteq OnDisk
   /\ \A s \in JsonFilesOnDisk :
        /\ DocAt(s).json = "ok"
        /\ Unkeyed(s) => /\ NestedKeyAt(s, "metadata", "type")
                         /\ NestedKeyAt(s, "metadata", "name")
                         /\ NestedKeyAt(s, "ui", "template")
                         /\ KeyAt(s, "integration"))
  => /\ exitCode = 0
     /\ Printed(LogN("ready", Cardinality({s \in JsonFilesOnDisk : Unkeyed(s)})))

(* C6: a discovered document with a topics or a definitions key, whatever *)
(* the value of the key, is skipped: it gets no error, and it is not among *)
(* the components counted.                                                 *)
C6_KeyPresenceMakesTopicDocument ==
  (Exited /\ Walked) =>
    /\ \A i \in 1..Len(actualFiles) :
         (KeyAt(actualFiles[i], "topics") \/ KeyAt(actualFiles[i], "definitions"))
         => /\ Printed(Skipping(actualFiles[i]))
            /\ ~ErrorFor(actualFiles[i])
    /\ exitCode = 0 =>
         Printed(LogN("ready",
                      Cardinality({i \in 1..Len(actualFiles) : Unkeyed(actualFiles[i])})))

(* C7, as claimed: whenever the validator exits 0, the paths index.json   *)
(* declares are exactly the component files below the directory.           *)
C7_ExitZeroMeansIndexListsAll ==
  (Exited /\ exitCode = 0) => DeclaredOnDisk = JsonFilesOnDisk

(* C7, amended: whenever the validator exits 0, every path index.json     *)
(* declares is a component file the walk discovered (no stale entry); the  *)
(* discovered files index.json does not declare are named in a warning and *)
(* no more.                                                                *)
C7_ExitZeroMeansNoStaleEntry ==
  (Exited /\ exitCode = 0) =>
    /\ DeclaredOnDisk \subseteq Range(actualFiles)
    /\ Range(actualFiles) \subseteq JsonFilesOnDisk
    /\ Range(actualFiles) \ DeclaredOnDisk # {} =>
         \E i \in 1..Len(console) :
           /\ console[i].kind = "not_listed" /\ console[i].level = "warn"
           /\ Range(console[i].list) = Range(actualFiles) \ DeclaredOnDisk

\* exit 0 with one file declared and another one not
C7_Witness ==
  /\ Exited /\ exitCode = 0
  /\ DeclaredOnDisk = {"a.json"}
  /\ Printed(NotListed(<<"sub/b.json">>))

(* C10: the walk collects every *.json file below the directory, at any   *)
(* depth, once, as a forward-slash path relative to the directory, leaving *)
(* out only the index file at the root of the directory; the declared list *)
(* is compared against that set.                                           *)
C10_WalkFindsEveryJsonFile ==
  Walked =>
    /\ Range(actualFiles) = JsonFilesOnDisk
    /\ Len(actualFiles) = Cardinality(JsonFilesOnDisk)
    /\ (pc # "compare" /\ DeclaredOnDisk \ JsonFilesOnDisk # {}) =>
         \E i \in 1..Len(console) :
           /\ console[i].kind = "stale"
           /\ Range(console[i].list) = DeclaredOnDisk \ JsonFilesOnDisk

---------------------------------------------------------------------------
(* Vocabulary of the order of the stages of a run *)

StageOf(p) ==
  CASE p = "start" -> 0
    [] p = "readIndex" -> 1
    [] p = "checkIndex" -> 2
    [] p = "walk" -> 3
    [] p = "compare" -> 4
    [] p = "validate" -> 5
    [] p = "count" -> 6
    [] OTHER -> 7

\* the step belongs to one run: it is not an edit followed by a new run
SameRun == pc' # "start"

\* the directory or the index file is missing, the index does not parse, or
\* it has no version key or no components array
PreconditionFails ==
  ~IndexHasList \/ ~HasKey(files[IndexPath].value, "version")

\* no message about the component files is on the console
NothingDiscovered ==
  /\ actualFiles = <<>> /\ declaredFiles = <<>> /\ cursor = 0
  /\ \A i \in 1..Len(console) :
       /\ console[i].file = ""
       /\ console[i].kind \notin {"found", "declares", "not_listed", "stale",
                                  "passed", "ready"}

SuccessPrinted ==
  \E i \in 1..Len(console) : console[i].kind \in {"passed", "ready"}

\* the messages the step adds to the console
Added == SubSeq(console', Len(console) + 1, Len(console'))

StagesInOrder ==
  /\ PreconditionFails =>
       /\ pc \in {"start", "readIndex", "checkIndex", "exited"}
       /\ NothingDiscovered
       /\ Exited => exitCode = 1
  /\ (Walked /\ (Exited \/ pc = "count")) => cursor = Len(actualFiles) + 1
  /\ SuccessPrinted =>
       /\ ~hasErrors
       /\ \A i \in 1..Len(console) : console[i].level # "error"
       /\ Exited => exitCode = 0
  /\ (Exited /\ exitCode = 0) =>
       \E i, j \in 1..Len(console) :
         i < j /\ console[i].kind = "passed" /\ console[j].kind = "ready"

StagesStep ==
  /\ SameRun => StageOf(pc') >= StageOf(pc)
  /\ (SameRun /\ hasErrors) => hasErrors'
  /\ (SameRun /\ actualFiles' # actualFiles) => pc = "walk"
  /\ (SameRun /\ cursor' # cursor) =>
       \/ pc = "compare" /\ cursor' = 1
       \/ pc = "validate" /\ cursor <= Len(actualFiles) /\ cursor' = cursor + 1
  /\ (pc = "validate" /\ pc' # "validate") => cursor = Len(actualFiles) + 1
  /\ (StageOf(pc) >= StageOf("walk") /\ ~hasErrors /\ hasErrors') =>
       \E i \in 1..Len(Added) :
         /\ Added[i].level = "error"
         /\ \/ pc = "compare" /\ Added[i].kind = "stale"
            \/ /\ pc = "validate"
               /\ Added[i].kind \in {"missing", "invalid_json"}
               /\ Added[i].file = actualFiles[cursor]

(* C11: the stages of a run come in order and the error flag only grows:   *)
(* a missing directory or index file, an index that does not parse or has   *)
(* no version or no components array ends the run with status 1 before any  *)
(* component file is discovered or read; after the walk the flag is set,    *)
(* and never cleared, only by stale entries, missing fields and parse       *)
(* errors; every discovered file is examined before the exit decision; the  *)
(* success message and the count are printed only when the flag was never   *)
(* set.                                                                     *)
C11_StagesOrderedFlagMonotone == [](StagesInOrder) /\ [][StagesStep]_vars

\* the flag is set by a stale entry, and both files are examined afterwards
C11_Witness ==
  /\ Exited /\ exitCode = 1 /\ hasErrors
  /\ Len(actualFiles) = 2 /\ cursor = 3
  /\ \E i, j \in 1..Len(console) :
       /\ i < j
       /\ console[i].kind = "stale"
       /\ console[j] = MissingField(actualFiles[2], "metadata")
  /\ ~SuccessPrinted

---------------------------------------------------------------------------
(* Vocabulary of the properties of the suite *)

TestExited == tpc = "exited"

Passes == {i \in 1..Len(outcome) : outcome[i].result = "pass"}

\* the run ended in the catch of the main guard: a load threw
SuiteFailed == \E i \in 1..Len(tlog) : tlog[i].kind = "suite_failed"

(* C8: each of the 8 checks runs once, in order, whatever the earlier     *)
(* checks did; a check that throws is logged and leaves passedCount as it  *)
(* was, so passedCount <= testCount throughout and testCount = 8 at the    *)
(* end; the suite exits 0 exactly when passedCount = testCount and exits 1 *)
(* when a check failed or a load threw.                                    *)
C8_EveryCheckRunsOnce ==
  /\ passedCount <= testCount
  /\ testCount = Len(outcome)
  /\ passedCount = Cardinality(Passes)
  /\ \A i \in 1..Len(outcome) :
       /\ outcome[i].test = i
       /\ \E j \in 1..Len(tlog) :
            tlog[j].test = i /\ tlog[j].kind = outcome[i].result
  /\ TestExited =>
       /\ texit \in {0, 1}
       /\ (loadThrows("react.json") \/ loadThrows("index.json"))
          => (texit = 1 /\ SuiteFailed /\ testCount = 0)
       /\ ~(loadThrows("react.json") \/ loadThrows("index.json"))
          => /\ testCount = NumTests
             /\ texit = 0 <=> passedCount = testCount
             /\ Cardinality(Passes) < NumTests => texit = 1
             /\ \E j \in 1..Len(tlog) :
                  tlog[j] = TMsg("results", 0, passedCount, testCount)

\* the first check fails, later ones pass, and the suite exits 1 after all 8
C8_Witness ==
  /\ TestExited /\ texit = 1
  /\ testCount = 8 /\ passedCount = 6
  /\ outcome[1].result = "fail" /\ outcome[3].result = "fail"
  /\ outcome[2].result = "pass" /\ outcome[8].result = "pass"

(* C9: after a run that reported 8/8, changing only                       *)
(* template.render.strategy to a value other than "react" makes check 4    *)
(* fail and leaves the outcome of the other seven as it was: the suite     *)
(* reports 7/8 and exits 1.                                                *)
C9_OnlyTemplateCheckFails ==
  (TestExited /\ tprev.op = "corrupt" /\ tprev.exit = 0) =>
    /\ Len(outcome) = NumTests
    /\ outcome[4].result = "fail"
    /\ \A k \in (1..NumTests) \ {4} : outcome[k] = tprev.outcome[k]
    /\ \A k \in 1..NumTests : tprev.outcome[k].result = "pass"
    /\ passedCount = 7 /\ testCount = 8
    /\ \E j \in 1..Len(tlog) : tlog[j] = TMsg("results", 0, 7, 8)
    /\ texit = 1

C9_Witness ==
  /\ TestExited /\ tprev.op = "corrupt" /\ tprev.exit = 0
  /\ Read(tfiles["react.json"].value, <<"template", "render", "strategy">>).value
       = Str("vue")
  /\ outcome[4].result = "fail"
  /\ passedCount = 7
  /\ texit = 1

=============================================================================
